---- MODULE Spec2Model ----
(***************************************************************************)
(* Model of mask_article (src/create_mask_data.py): the three-tier         *)
(* stochastic masking of a news article.                                   *)
(*                                                                         *)
(* A string is a sequence of characters; a character is a one-symbol       *)
(* value.  The tokenizer's mask_token is the reserved symbol "M" (one      *)
(* atomic marker).  A probability is counted in halves (0, 1/2, 1), and a  *)
(* draw of random() is the half of [0,1) it falls in, so `random() < p`    *)
(* is never true for p = 0, always true for p = 1 and either for p = 1/2.  *)
(***************************************************************************)
EXTENDS Integers, Sequences, FiniteSets, TLC

\* ---------------------------------------------------------------- bounds
MaxArticleLen == 4
ModelMaxLength == 3
MaxNgram == 3

\* ------------------------------------------------------------ characters
\* Mutant of alphabet: the list misses the comma.
MutAlphabetMissingSign ==
    {"U+FF0C", "U+3002", "U+FF1A", ":", "U+FF1B", ";", "U+FF01", "!",
     "U+FF1F", "?"}

\* The delimiter list of line 30; the full-width signs are named by code point.
alphabet ==
    {"U+FF0C", ",", "U+3002", "U+FF1A", ":", "U+FF1B", ";", "U+FF01", "!",
     "U+FF1F", "?"}

\* The character class of the regular expression of line 18.
sentence_spliter ==
    {"U+FF0C", ",", "U+3002", "U+FF1A", ",", ":", "U+FF1B", ";", "U+FF01", "!",
     "U+FF1F", "?"}

mask_token == <<"M">>

\* The characters articles are drawn from.
ArticleChars == {"a", ",", "M"}

Probabilities == {0, 1, 2}
RandomDraws == {0, 1}

\* ------------------------------------------------------------- sequences
RECURSIVE SeqsUpTo(_, _)
SeqsUpTo(S, k) ==
    IF k = 0 THEN {<<>>}
    ELSE LET shorter == SeqsUpTo(S, k - 1)
         IN  shorter \cup {Append(s, c) : s \in {t \in shorter : Len(t) = k - 1}, c \in S}

Min(x, y) == IF x < y THEN x ELSE y

\* ''.join(parts)
RECURSIVE Join(_)
Join(parts) ==
    IF parts = <<>> THEN <<>> ELSE Head(parts) \o Join(Tail(parts))

\* sep.join(parts)
RECURSIVE JoinWith(_, _)
JoinWith(sep, parts) ==
    IF parts = <<>> THEN <<>>
    ELSE IF Len(parts) = 1 THEN Head(parts)
    ELSE Head(parts) \o sep \o JoinWith(sep, Tail(parts))

\* seq[lo:hi] of Python for 0 <= lo and 0 <= hi (0-based, hi exclusive, clamped).
Slice(seq, lo, hi) == SubSeq(seq, lo + 1, Min(hi, Len(seq)))

\* tokenizer.tokenize: the vocabulary holds the two-character token "aa"
\* and every single character; the longest match is taken.
RECURSIVE tokenize(_)
tokenize(text) ==
    IF text = <<>> THEN <<>>
    ELSE IF Len(text) >= 2 /\ text[1] = "a" /\ text[2] = "a"
         THEN <<SubSeq(text, 1, 2)>> \o tokenize(SubSeq(text, 3, Len(text)))
         ELSE <<SubSeq(text, 1, 1)>> \o tokenize(Tail(text))

\* re.split with one capturing group: the pieces between the delimiters
\* (possibly empty) interleaved with the delimiters themselves.
RECURSIVE SplitFrom(_, _)
SplitFrom(text, cur) ==
    IF text = <<>> THEN <<cur>>
    ELSE IF Head(text) \in sentence_spliter
         THEN <<cur, <<Head(text)>>>> \o SplitFrom(Tail(text), <<>>)
         ELSE SplitFrom(Tail(text), Append(cur, Head(text)))

split(text) == SplitFrom(text, <<>>)

\* `sent in alphabet`
InAlphabet(sent) == Len(sent) = 1 /\ sent[1] \in alphabet

\* Mutant of Below: the comparison is not strict.
MutBelowOrEqual(r, p) == r <= p

\* random() < p
Below(r, p) == r < p

\* ----------------------------------------------------------------- state
VARIABLES
    raw_article,        \* the article argument
    document_mask_p, sentence_mask_p, word_mask_p, ngram_mask_p,
    min_ngram_length, max_ngram_length,
    pc,                 \* position in mask_article
    article,            \* the truncated article (line 19)
    sentences,          \* line 27
    sent_idx,           \* position of `for sent in sentences` (1-based)
    masked_sentences,   \* line 28
    answer,             \* line 29
    tokenized_sent,     \* line 39
    word_idx,           \* line 40 (0-based)
    n,                  \* line 44
    result,             \* the returned pair
    tokenize_calls,     \* number of tokenizer.tokenize calls made
    iterations          \* number of passes through the body of the while loop
                        \* of line 41 for the current sentence

params == <<raw_article, document_mask_p, sentence_mask_p, word_mask_p,
            ngram_mask_p, min_ngram_length, max_ngram_length>>
locals == <<article, sentences, sent_idx, masked_sentences, answer,
            tokenized_sent, word_idx, n, result, tokenize_calls, iterations>>
vars == <<params, pc, locals>>

NoResult == [masked_text |-> <<>>, answer_text |-> <<>>]

Init ==
    /\ raw_article \in SeqsUpTo(ArticleChars, MaxArticleLen)
    /\ document_mask_p \in Probabilities
    /\ sentence_mask_p \in Probabilities
    /\ word_mask_p \in Probabilities
    /\ ngram_mask_p \in Probabilities
    /\ min_ngram_length \in 1..MaxNgram
    /\ max_ngram_length \in 1..MaxNgram
    /\ pc = "start"
    /\ article = <<>>
    /\ sentences = <<>>
    /\ sent_idx = 1
    /\ masked_sentences = <<>>
    /\ answer = <<>>
    /\ tokenized_sent = <<>>
    /\ word_idx = 0
    /\ n = 0
    /\ result = NoResult
    /\ tokenize_calls = 0
    /\ iterations = 0

\* --------------------------------------------------------------- actions
\* line 19: article = ''.join(tokenizer.tokenize(article)[:model_max_length])
Truncate ==
    /\ pc = "start"
    /\ article' = Join(Slice(tokenize(raw_article), 0, ModelMaxLength))
    /\ tokenize_calls' = tokenize_calls + 1
    /\ pc' = "document"
    /\ UNCHANGED <<params, sentences, sent_idx, masked_sentences, answer,
                   tokenized_sent, word_idx, n, result, iterations>>

\* Mutant of DocumentMask: the answer is returned without the trailing mask_token.
MutDocumentMaskBareAnswer ==
    /\ pc = "document"
    /\ \E r \in RandomDraws : Below(r, document_mask_p)
    /\ result' = [masked_text |-> mask_token, answer_text |-> article]
    /\ pc' = "done"
    /\ UNCHANGED <<params, article, sentences, sent_idx, masked_sentences, answer,
                   tokenized_sent, word_idx, n, tokenize_calls, iterations>>

\* lines 22-25: the document-level mask
DocumentMask ==
    /\ pc = "document"
    /\ \E r \in RandomDraws : Below(r, document_mask_p)
    /\ result' = [masked_text |-> mask_token, answer_text |-> article \o mask_token]
    /\ pc' = "done"
    /\ UNCHANGED <<params, article, sentences, sent_idx, masked_sentences, answer,
                   tokenized_sent, word_idx, n, tokenize_calls, iterations>>

\* lines 26-30: the else branch splits the article
SplitSentences ==
    /\ pc = "document"
    /\ \E r \in RandomDraws : ~Below(r, document_mask_p)
    /\ sentences' = split(article)
    /\ sent_idx' = 1
    /\ masked_sentences' = <<>>
    /\ answer' = <<>>
    /\ pc' = "for"
    /\ UNCHANGED <<params, article, tokenized_sent, word_idx, n, result,
                   tokenize_calls, iterations>>

\* lines 31-34: a delimiter is copied
CopyDelimiter ==
    /\ pc = "for"
    /\ sent_idx <= Len(sentences)
    /\ InAlphabet(sentences[sent_idx])
    /\ masked_sentences' = Append(masked_sentences, sentences[sent_idx])
    /\ sent_idx' = sent_idx + 1
    /\ UNCHANGED <<params, pc, article, sentences, answer, tokenized_sent,
                   word_idx, n, result, tokenize_calls, iterations>>

\* Mutant of SentenceMask: the sentence is tokenized before the coin is flipped.
MutSentenceMaskTokenizesFirst ==
    /\ pc = "for"
    /\ sent_idx <= Len(sentences)
    /\ ~InAlphabet(sentences[sent_idx])
    /\ \E r \in RandomDraws : Below(r, sentence_mask_p)
    /\ tokenized_sent' = tokenize(sentences[sent_idx])
    /\ tokenize_calls' = tokenize_calls + 1
    /\ masked_sentences' = Append(masked_sentences, mask_token)
    /\ answer' = Append(answer, sentences[sent_idx])
    /\ sent_idx' = sent_idx + 1
    /\ UNCHANGED <<params, pc, article, sentences, word_idx, n, result, iterations>>

\* lines 35-37: the whole sentence is masked
SentenceMask ==
    /\ pc = "for"
    /\ sent_idx <= Len(sentences)
    /\ ~InAlphabet(sentences[sent_idx])
    /\ \E r \in RandomDraws : Below(r, sentence_mask_p)
    /\ masked_sentences' = Append(masked_sentences, mask_token)
    /\ answer' = Append(answer, sentences[sent_idx])
    /\ sent_idx' = sent_idx + 1
    /\ UNCHANGED <<params, pc, article, sentences, tokenized_sent, word_idx, n,
                   result, tokenize_calls, iterations>>

\* lines 38-40: the sentence goes to the word-level scan
TokenizeSentence ==
    /\ pc = "for"
    /\ sent_idx <= Len(sentences)
    /\ ~InAlphabet(sentences[sent_idx])
    /\ \E r \in RandomDraws : ~Below(r, sentence_mask_p)
    /\ tokenized_sent' = tokenize(sentences[sent_idx])
    /\ tokenize_calls' = tokenize_calls + 1
    /\ word_idx' = 0
    /\ iterations' = 0
    /\ pc' = "while"
    /\ UNCHANGED <<params, article, sentences, sent_idx, masked_sentences, answer,
                   n, result>>

\* line 41: the scan of the sentence is over, the for loop goes on
EndSentence ==
    /\ pc = "while"
    /\ ~(word_idx < Len(tokenized_sent))
    /\ sent_idx' = sent_idx + 1
    /\ pc' = "for"
    /\ UNCHANGED <<params, article, sentences, masked_sentences, answer,
                   tokenized_sent, word_idx, n, result, tokenize_calls, iterations>>

\* lines 42, 56-58: the token passes through
PassThrough ==
    /\ pc = "while"
    /\ word_idx < Len(tokenized_sent)
    /\ \E r \in RandomDraws : ~Below(r, word_mask_p)
    /\ masked_sentences' = Append(masked_sentences, tokenized_sent[word_idx + 1])
    /\ word_idx' = word_idx + 1
    /\ iterations' = iterations + 1
    /\ UNCHANGED <<params, pc, article, sentences, sent_idx, answer, tokenized_sent,
                   n, result, tokenize_calls>>

\* lines 42-43, 53-55, 58: one token is masked
SingleTokenMask ==
    /\ pc = "while"
    /\ word_idx < Len(tokenized_sent)
    /\ \E r \in RandomDraws : Below(r, word_mask_p)
    /\ \E r \in RandomDraws : ~Below(r, ngram_mask_p)
    /\ masked_sentences' = Append(masked_sentences, mask_token)
    /\ answer' = Append(answer, tokenized_sent[word_idx + 1])
    /\ word_idx' = word_idx + 1
    /\ iterations' = iterations + 1
    /\ UNCHANGED <<params, pc, article, sentences, sent_idx, tokenized_sent,
                   n, result, tokenize_calls>>

\* randrange(lo, hi): the values it can return; none when the range is empty
randrange(lo, hi) == lo..(hi - 1)

\* Mutants of NgramLengths: the two bounds are swapped; the upper bound is
\* included; the lower bound is left out.
MutNgramLengthsSwapped == randrange(max_ngram_length, min_ngram_length)
MutNgramLengthsInclusive == randrange(min_ngram_length, max_ngram_length + 1)
MutNgramLengthsNoMin == randrange(0, max_ngram_length)

\* lines 44-47: the arguments given to randrange
NgramLengths == randrange(min_ngram_length, max_ngram_length)

\* lines 42-47: n is drawn
DrawNgram ==
    /\ pc = "while"
    /\ word_idx < Len(tokenized_sent)
    /\ \E r \in RandomDraws : Below(r, word_mask_p)
    /\ \E r \in RandomDraws : Below(r, ngram_mask_p)
    /\ NgramLengths # {}
    /\ n' \in NgramLengths
    /\ pc' = "ngram"
    /\ UNCHANGED <<params, article, sentences, sent_idx, masked_sentences, answer,
                   tokenized_sent, word_idx, result, tokenize_calls, iterations>>

\* lines 44-47: randrange raises ValueError on an empty range
DrawNgramError ==
    /\ pc = "while"
    /\ word_idx < Len(tokenized_sent)
    /\ \E r \in RandomDraws : Below(r, word_mask_p)
    /\ \E r \in RandomDraws : Below(r, ngram_mask_p)
    /\ NgramLengths = {}
    /\ pc' = "error"
    /\ UNCHANGED <<params, locals>>

\* Mutant of NgramMask: only the token under the cursor goes to the answer.
MutNgramMaskOneToken ==
    /\ pc = "ngram"
    /\ masked_sentences' = Append(masked_sentences, mask_token)
    /\ answer' = Append(answer, tokenized_sent[word_idx + 1])
    /\ word_idx' = word_idx + n
    /\ iterations' = iterations + 1
    /\ pc' = "while"
    /\ UNCHANGED <<params, article, sentences, sent_idx, tokenized_sent, n, result,
                   tokenize_calls>>

\* lines 48-52: the n-gram is masked
NgramMask ==
    /\ pc = "ngram"
    /\ masked_sentences' = Append(masked_sentences, mask_token)
    /\ answer' = Append(answer, Join(Slice(tokenized_sent, word_idx, word_idx + n)))
    /\ word_idx' = word_idx + n
    /\ iterations' = iterations + 1
    /\ pc' = "while"
    /\ UNCHANGED <<params, article, sentences, sent_idx, tokenized_sent, n, result,
                   tokenize_calls>>

\* line 59: the pair is returned
Return ==
    /\ pc = "for"
    /\ sent_idx > Len(sentences)
    /\ result' = [masked_text |-> Join(masked_sentences),
                  answer_text |-> JoinWith(mask_token, answer) \o mask_token]
    /\ pc' = "done"
    /\ UNCHANGED <<params, article, sentences, sent_idx, masked_sentences, answer,
                   tokenized_sent, word_idx, n, tokenize_calls, iterations>>

Next ==
    \/ Truncate
    \/ DocumentMask
    \/ SplitSentences
    \/ CopyDelimiter
    \/ SentenceMask
    \/ TokenizeSentence
    \/ EndSentence
    \/ PassThrough
    \/ SingleTokenMask
    \/ DrawNgram
    \/ DrawNgramError
    \/ NgramMask
    \/ Return

Spec == Init /\ [][Next]_vars

\* The calls in which every probability is 1/2: each coin can fall either
\* way at each flip, so the runs of every other setting of the four
\* probabilities are among the runs of these calls.
FairInit ==
    /\ Init
    /\ document_mask_p = 1
    /\ sentence_mask_p = 1
    /\ word_mask_p = 1
    /\ ngram_mask_p = 1

\* The interpreter runs the call to its end: no step waits on anything.
FairSpec == FairInit /\ [][Next]_vars /\ WF_vars(Next)

\* ---------------------------------------------------------------- claims
\* Notions the claims are stated in, defined apart from the operations.
EndsWith(text, suffix) ==
    /\ Len(text) >= Len(suffix)
    /\ SubSeq(text, Len(text) - Len(suffix) + 1, Len(text)) = suffix

CountOf(text, c) == Cardinality({i \in DOMAIN text : text[i] = c})

\* The article as line 19 leaves it: the first ModelMaxLength tokens, re-joined.
Truncated(text) ==
    LET t == tokenize(text)
    IN  Join([i \in 1..Min(Len(t), ModelMaxLength) |-> t[i]])

IsDelimiter(seg) == Len(seg) = 1 /\ seg[1] \in sentence_spliter
ContentSegments(segs) == {i \in DOMAIN segs : ~IsDelimiter(segs[i])}
IsDelimiterChar(c) == c \in sentence_spliter
Delimiters(text) == SelectSeq(text, IsDelimiterChar)

\* The else branch of line 26 was taken (split returns at least one piece).
SentenceTier == sentences # <<>>

\* masked with its k-th mask_token replaced by the k-th entry of entries.
RECURSIVE Fill(_, _)
Fill(masked, entries) ==
    IF masked = <<>> THEN <<>>
    ELSE IF Head(masked) = mask_token[1] /\ entries # <<>>
         THEN Head(entries) \o Fill(Tail(masked), Tail(entries))
         ELSE <<Head(masked)>> \o Fill(Tail(masked), entries)

ProperRange == min_ngram_length < max_ngram_length

\* C1: the returned answer_text ends with exactly one mask_token: it has
\* mask_token as a suffix and not two mask_tokens in a row.
C1_AnswerEndsWithOneMask ==
    pc = "done" =>
        /\ EndsWith(result.answer_text, mask_token)
        /\ ~EndsWith(result.answer_text, mask_token \o mask_token)

\* C2 as stated: with word_mask_p = 0 and document_mask_p = 0 (any
\* sentence_mask_p) masked_text is the truncated article and answer_text is
\* one mask_token.
C2_NoMaskingAnySentenceP ==
    (pc = "done" /\ word_mask_p = 0 /\ document_mask_p = 0) =>
        /\ result.masked_text = Truncated(raw_article)
        /\ result.answer_text = mask_token

\* C2 amended: with word_mask_p = 0, document_mask_p = 0 and sentence_mask_p = 0
\* masked_text is the truncated article, the answer list is empty and
\* answer_text is one mask_token.
C2_NoMasking ==
    (pc = "done" /\ word_mask_p = 0 /\ document_mask_p = 0 /\ sentence_mask_p = 0) =>
        /\ result.masked_text = Truncated(raw_article)
        /\ answer = <<>>
        /\ result.answer_text = mask_token

C2_Witness ==
    /\ pc = "done" /\ word_mask_p = 0 /\ document_mask_p = 0 /\ sentence_mask_p = 0
    /\ Len(sentences) >= 3
    /\ Len(article) < Len(raw_article)
    /\ \E i \in DOMAIN sentences : Len(sentences[i]) >= 2

\* C3: with document_mask_p = 1 the call goes from the truncation straight to
\* the return of (mask_token, truncated article + mask_token): no sentence is
\* split off and no sentence is tokenized.
C3_DocumentMaskAlways ==
    document_mask_p = 2 =>
        /\ pc \in {"start", "document", "done"}
        /\ sentences = <<>> /\ masked_sentences = <<>> /\ answer = <<>>
        /\ pc = "done" =>
              /\ result.masked_text = mask_token
              /\ result.answer_text = Truncated(raw_article) \o mask_token
              /\ tokenize_calls = 1

C3_Witness ==
    /\ pc = "done" /\ document_mask_p = 2
    /\ article # <<>>
    /\ Len(article) < Len(raw_article)
    /\ Delimiters(article) # <<>>

\* C4: with sentence_mask_p = 1 and document_mask_p = 0, masked_text is the
\* split article with every piece that is not a delimiter replaced by one
\* mask_token and every delimiter in place, and it holds as many mask_tokens
\* as the split has content pieces.
C4_EverySentenceMasked ==
    (pc = "done" /\ sentence_mask_p = 2 /\ document_mask_p = 0) =>
        LET segs == split(Truncated(raw_article))
        IN  /\ result.masked_text =
                   Join([i \in DOMAIN segs |->
                            IF IsDelimiter(segs[i]) THEN segs[i] ELSE mask_token])
            /\ CountOf(result.masked_text, mask_token[1]) =
                   Cardinality(ContentSegments(segs))

C4_Witness ==
    /\ pc = "done" /\ sentence_mask_p = 2 /\ document_mask_p = 0
    /\ Len(sentences) >= 3
    /\ \E i \in ContentSegments(sentences) : sentences[i] = <<>>
    /\ \E i \in ContentSegments(sentences) : sentences[i] # <<>>

\* C5 as stated: no call reaches an error, whatever the n-gram range.
C5_NeverAnError == pc # "error"

\* C5 amended: with min_ngram_length < max_ngram_length no call reaches an
\* error, and every call that has not returned has a next step.
C5_NoErrorOnProperRange ==
    ProperRange => (pc # "error" /\ (pc # "done" => ENABLED Next))

C5_Witness ==
    /\ pc = "done" /\ ProperRange
    /\ n >= 1
    /\ word_idx > Len(tokenized_sent)

\* C6 as stated: a call makes 1 + (number of content pieces) tokenize calls.
C6_OneCallPerContentSegment ==
    pc = "done" =>
        tokenize_calls = 1 + Cardinality(ContentSegments(split(article)))

\* C6 amended: tokenize is called once for the truncation and once for each
\* content piece that enters the word-level scan (none for a piece masked
\* whole, none at all below the document-level mask): at most
\* 1 + (number of content pieces) calls, exactly 1 when the document-level
\* mask is taken or every piece is masked whole, and exactly
\* 1 + (number of content pieces) when no piece is masked whole.
C6_TokenizeCalls ==
    /\ [][tokenize_calls' = tokenize_calls +
            (IF pc = "start" \/ (pc = "for" /\ pc' = "while") THEN 1 ELSE 0)]_vars
    /\ [](pc = "done" =>
            LET content == Cardinality(ContentSegments(split(Truncated(raw_article))))
            IN  /\ 1 <= tokenize_calls /\ tokenize_calls <= 1 + content
                /\ ~SentenceTier => tokenize_calls = 1
                /\ (SentenceTier /\ sentence_mask_p = 2) => tokenize_calls = 1
                /\ (SentenceTier /\ sentence_mask_p = 0) => tokenize_calls = 1 + content)

C6_Witness ==
    /\ pc = "done" /\ SentenceTier
    /\ Cardinality(ContentSegments(sentences)) >= 2
    /\ tokenize_calls = 2

\* C7: in the sentence/word tier no entry of the answer list holds a
\* delimiter, the delimiters copied so far are those of the pieces gone
\* through, and the delimiters of masked_text are those of the truncated
\* article, in the same order.
C7_DelimitersKept ==
    SentenceTier =>
        /\ \A i \in DOMAIN answer : Delimiters(answer[i]) = <<>>
        /\ pc = "for" =>
              Delimiters(Join(masked_sentences)) =
                  Delimiters(Join(SubSeq(sentences, 1, sent_idx - 1)))
        /\ pc = "done" =>
              Delimiters(result.masked_text) = Delimiters(Truncated(raw_article))

C7_Witness ==
    /\ pc = "done" /\ SentenceTier
    /\ Len(Delimiters(article)) >= 1
    /\ Head(article) \notin sentence_spliter
    /\ \E i \in DOMAIN answer : answer[i] # <<>>
    /\ \E i \in DOMAIN result.masked_text : result.masked_text[i] = "a"

\* C8: the step that masks an n-gram at cursor word_idx has
\* min_ngram_length <= n < max_ngram_length, appends one mask_token and
\* nothing else to the masked output, appends one answer entry, the
\* concatenation of the tokens word_idx .. min(word_idx + n, L) - 1
\* (0-based), and moves the cursor by n.
C8_NgramStep ==
    [][pc = "ngram" =>
        LET L == Len(tokenized_sent)
            last == Min(word_idx + n, L)
        IN  /\ min_ngram_length <= n /\ n < max_ngram_length
            /\ masked_sentences' = Append(masked_sentences, mask_token)
            /\ Len(answer') = Len(answer) + 1
            /\ SubSeq(answer', 1, Len(answer)) = answer
            /\ answer'[Len(answer')] =
                   Join([k \in 1..(last - word_idx) |-> tokenized_sent[word_idx + k]])
            /\ word_idx' = word_idx + n
            /\ pc' = "while"]_vars

C8_Witness ==
    /\ pc = "while"
    /\ n >= 2
    /\ word_idx > Len(tokenized_sent)
    /\ answer # <<>> /\ Len(answer[Len(answer)]) >= 1

\* C9: in the sentence/word tier, for an article without mask_token and
\* min_ngram_length < max_ngram_length, masked_text holds as many mask_tokens
\* as the answer list has entries, filling the k-th mask_token with the k-th
\* entry gives back the truncated article, and answer_text is the entries in
\* order with mask_token between them and one mask_token at the end: each
\* entry is followed by one mask_token.
C9_RoundTrip ==
    (pc = "done" /\ SentenceTier /\ CountOf(raw_article, mask_token[1]) = 0
        /\ ProperRange) =>
        /\ CountOf(result.masked_text, mask_token[1]) = Len(answer)
        /\ Fill(result.masked_text, answer) = Truncated(raw_article)
        /\ result.answer_text =
              Join([k \in DOMAIN answer |->
                       IF k < Len(answer) THEN answer[k] \o mask_token ELSE answer[k]])
                  \o mask_token
        /\ answer # <<>> =>
              result.answer_text = Join([k \in DOMAIN answer |-> answer[k] \o mask_token])

C9_Witness ==
    /\ pc = "done" /\ SentenceTier /\ CountOf(raw_article, mask_token[1]) = 0
    /\ ProperRange
    /\ Len(answer) >= 2
    /\ n >= 1
    /\ \E k \in DOMAIN answer : Len(answer[k]) >= 2
    /\ Delimiters(article) # <<>>

\* C10: with min_ngram_length < max_ngram_length every call returns; each pass
\* through the loop body moves the cursor forward (by 1, or by n >= 1), and
\* the scan of a sentence of L tokens makes at most L passes.
C10_Terminates ==
    /\ ProperRange => <>(pc = "done")
    /\ [][((pc = "while" /\ pc' = "while") \/ pc = "ngram") =>
             (word_idx' > word_idx /\ iterations' = iterations + 1)]_vars
    /\ [][(pc = "while" /\ pc' = "ngram") =>
             (word_idx' = word_idx /\ iterations' = iterations)]_vars
    /\ [](pc \in {"while", "ngram"} =>
             (iterations <= word_idx /\ iterations <= Len(tokenized_sent)))

C10_Witness ==
    /\ pc = "done" /\ ProperRange
    /\ iterations >= 2
    /\ n >= 1
    /\ Len(sentences) >= 3

====
